---- MODULE Spec2Model ----
(***************************************************************************)
(* A model of the stitching session of stitcher.py: the ImageStitcher      *)
(* object (its image list, its pairwise match records, its cached center   *)
(* and its cached edge matrix) and the operations add_image, center (read  *)
(* and write) and stitch, together with the pure helpers they call.        *)
(*                                                                         *)
(* Images are identified by their index in _images (the name of image i is *)
(* i).  The vision primitives of OpenCV are the environment: the number of *)
(* good matches of a pair, the inlier count of an estimated homography and *)
(* the transformed corners of an image are inputs drawn from small sets.   *)
(* A homography is a word over the pairwise steps, the matrix product is   *)
(* concatenation and the identity is the empty word, so that the order of  *)
(* a product is observable.  Coordinates are rationals with denominator    *)
(* Den, held as integers in units of 1/Den.                                *)
(***************************************************************************)
EXTENDS Integers, Sequences, FiniteSets, TLC

VARIABLES images, matches, center, cache, env, ret, manual

vars == <<images, matches, center, cache, env, ret, manual>>

\* ------------------------------------------------------------ bounds
\* Images a session of Spec may hold.
MaxImages == 3
\* Images a session drawn by PipelineInit may hold, and its match records.
MaxNodes == 4
MaxEdges == 4
\* Images of the session of BoundsInit.
BoundsImages == 3
\* Coordinates are multiples of 1/Den.
Den == 2
\* The shape of every image, in pixels.
ImgH == 1
ImgW == 2

\* ------------------------------------------------------------ constants
\* self.matches_threshold
MatchesThreshold == 10
\* self._center = None
None == -1
\* The predecessor scipy gives a node that has none (tested as dst_idx < 0).
NoPred == -9999

Nodes(n) == 0 .. (n - 1)

EmptyFn == [k \in {} |-> 0]

\* The function f, its values computed once (numpy arrays hold values).
Array(f) == f @@ EmptyFn

\* self._current_edge_matrix = None
NoMatrix == [set |-> FALSE, n |-> 0, w |-> EmptyFn]

N == Len(images)

\* ------------------------------------------------------------ matching
\* _match_features(src, dst): `good` correspondences passed the ratio test;
\* the record keeps them when there are at least matches_threshold of them.
\* knnMatch(src.feat, dst.feat) makes src the query side and dst the train
\* side of every correspondence.
MatchFeatures(src, dst, good) ==
    IF good >= MatchesThreshold
    THEN [found |-> TRUE, len |-> good, query |-> src, train |-> dst]
    ELSE [found |-> FALSE, len |-> 0, query |-> src, train |-> dst]

\* The keys and records add_image stores for the new image idx.
NewMatches(m, idx, good) ==
    LET new == {<<idx, o>> : o \in {p \in Nodes(idx) : MatchFeatures(idx, p, good[p]).found}}
    IN  Array([k \in (DOMAIN m) \cup new |->
            IF k \in DOMAIN m THEN m[k] ELSE MatchFeatures(k[1], k[2], good[k[2]])])

\* ------------------------------------------------------------ edge matrix
RECURSIVE MaxOver(_, _)
\* max(len(v) for v in self._matches.values()), for a non-empty m
MaxOver(m, keys) ==
    LET k == CHOOSE x \in keys : TRUE
    IN  IF keys = {k} THEN m[k].len
        ELSE LET r == MaxOver(m, keys \ {k})
             IN  IF m[k].len > r THEN m[k].len ELSE r

\* The matrix _edge_matrix builds from the records.
BuildMatrix(n, m) ==
    LET base == MaxOver(m, DOMAIN m) + 1
    IN  [set |-> TRUE, n |-> n, w |-> Array([k \in DOMAIN m |-> base - m[k].len])]

\* The property _edge_matrix: what a read raises or returns, and the cache
\* it leaves.
EdgeMatrixStale(imgs, m, cur) ==
    IF Len(imgs) = 0
    THEN [err |-> "EmptySession", mat |-> NoMatrix, cache |-> cur]
    ELSE IF cur.set
    THEN [err |-> "", mat |-> cur, cache |-> cur]
    ELSE IF DOMAIN m = {}
    THEN [err |-> "MaxOfEmpty", mat |-> NoMatrix, cache |-> cur]
    ELSE [err |-> "", mat |-> BuildMatrix(Len(imgs), m), cache |-> BuildMatrix(Len(imgs), m)]

EdgeMatrix(imgs, m, cur) ==
    IF Len(imgs) = 0
    THEN [err |-> "EmptySession", mat |-> NoMatrix, cache |-> cur]
    ELSE IF cur.set /\ cur.n = Len(imgs)
    THEN [err |-> "", mat |-> cur, cache |-> cur]
    ELSE IF DOMAIN m = {}
    THEN [err |-> "MaxOfEmpty", mat |-> NoMatrix, cache |-> cur]
    ELSE [err |-> "", mat |-> BuildMatrix(Len(imgs), m), cache |-> BuildMatrix(Len(imgs), m)]

\* ------------------------------------------------------------ graph
\* The graph is undirected: an entry stored as (i, j) joins i and j.
Adjacent(E, i, j) == <<i, j>> \in DOMAIN E.w \/ <<j, i>> \in DOMAIN E.w

Weight(E, i, j) == IF <<i, j>> \in DOMAIN E.w THEN E.w[<<i, j>>] ELSE E.w[<<j, i>>]

RECURSIVE SumWeights(_, _)
SumWeights(E, keys) ==
    IF keys = {} THEN 0
    ELSE LET k == CHOOSE x \in keys : TRUE
         IN  E.w[k] + SumWeights(E, keys \ {k})

\* The distance of an unreachable node (numpy's inf): above every path.
Inf(E) == SumWeights(E, DOMAIN E.w) + 1

RECURSIVE Grow(_, _)
\* The nodes reachable from the set S.
Grow(E, S) ==
    LET more == S \cup {j \in Nodes(E.n) : \E i \in S : Adjacent(E, i, j)}
    IN  IF more = S THEN S ELSE Grow(E, more)

RECURSIVE LabelFrom(_, _, _, _)
\* csgraph.connected_components: the nodes are scanned in index order and
\* each one not yet labelled starts the next component.
LabelFrom(E, i, groups, cc) ==
    IF i = E.n THEN [cc |-> cc, groups |-> groups]
    ELSE IF groups[i] # None THEN LabelFrom(E, i + 1, groups, cc)
    ELSE LET comp == Grow(E, {i})
         IN  LabelFrom(E, i + 1,
                 Array([j \in Nodes(E.n) |-> IF j \in comp THEN cc ELSE groups[j]]), cc + 1)

ConnectedComponents(E) == LabelFrom(E, 0, Array([j \in Nodes(E.n) |-> None]), 0)

RECURSIVE ArgMaxFrom(_, _, _, _)
\* numpy's argmax: the first index of the largest value.
ArgMaxFrom(f, n, i, best) ==
    IF i = n THEN best
    ELSE ArgMaxFrom(f, n, i + 1, IF f[i] > f[best] THEN i ELSE best)

RECURSIVE ArgMinLastFrom(_, _, _, _)
ArgMinLastFrom(f, n, i, best) ==
    IF i = n THEN best
    ELSE ArgMinLastFrom(f, n, i + 1, IF f[i] <= f[best] THEN i ELSE best)

RECURSIVE ArgMinFrom(_, _, _, _)
\* numpy's argmin: the first index of the smallest value.
ArgMinFrom(f, n, i, best) ==
    IF i = n THEN best
    ELSE ArgMinFrom(f, n, i + 1, IF f[i] < f[best] THEN i ELSE best)

RECURSIVE Ascending(_, _, _)
\* The members of S among i .. n-1, in increasing order.
Ascending(S, i, n) ==
    IF i >= n THEN <<>>
    ELSE (IF i \in S THEN <<i>> ELSE <<>>) \o Ascending(S, i + 1, n)

\* validate(): the error it raises, with the images that are not in the
\* most common component, or "" when the graph is connected.
Validate(E) ==
    LET c == ConnectedComponents(E)
        bincount == Array([l \in Nodes(c.cc) |->
                        Cardinality({j \in Nodes(E.n) : c.groups[j] = l})])
        most_common == ArgMaxFrom(bincount, c.cc, 0, 0)
    IN  IF c.cc # 1
        THEN [err |-> "Connectivity",
              names |-> Ascending({j \in Nodes(E.n) : c.groups[j] # most_common}, 0, E.n)]
        ELSE [err |-> "", names |-> <<>>]

\* a + b, where inf is the distance of an unreachable node.
Plus(inf, a, b) == IF a >= inf \/ b >= inf THEN inf ELSE a + b

Least(a, b) == IF a < b THEN a ELSE b

RECURSIVE FloydWarshall(_, _, _, _)
FloydWarshall(n, inf, D, k) ==
    IF k = n THEN D
    ELSE FloydWarshall(n, inf,
             Array([i \in Nodes(n) |-> Array([j \in Nodes(n) |->
                 Least(D[i][j], Plus(inf, D[i][k], D[k][j]))])]), k + 1)

\* csgraph.shortest_path(E, directed=False): all-pairs distances.
ShortestPath(E) ==
    LET inf == Inf(E)
    IN  FloydWarshall(E.n, inf,
            Array([i \in Nodes(E.n) |-> Array([j \in Nodes(E.n) |->
                IF i = j THEN 0 ELSE IF Adjacent(E, i, j) THEN Weight(E, i, j) ELSE inf])]), 0)

RECURSIVE MaxFrom(_, _, _, _)
MaxFrom(row, n, j, best) ==
    IF j = n THEN best
    ELSE MaxFrom(row, n, j + 1, IF row[j] > best THEN row[j] ELSE best)

\* _find_center, with a tie going to the last node.
FindCenterLast(E) ==
    LET D == ShortestPath(E)
        ecc == Array([i \in Nodes(E.n) |-> MaxFrom(D[i], E.n, 0, 0)])
    IN  ArgMinLastFrom(ecc, E.n, 0, 0)

\* _find_center: np.argmin(shortest_path.max(axis=1))
FindCenter(E) ==
    LET D == ShortestPath(E)
        ecc == Array([i \in Nodes(E.n) |-> MaxFrom(D[i], E.n, 0, 0)])
    IN  ArgMinFrom(ecc, E.n, 0, 0)

\* ------------------------------------------------------------ spanning tree
\* The parents a node may get on a shortest path from c.  Which of several
\* equally short paths scipy's Dijkstra keeps is not specified, so every
\* one of them is a possible outcome.
PredChoices(E, D, c, j) ==
    IF j = c \/ D[c][j] >= Inf(E) THEN {NoPred}
    ELSE {k \in Nodes(E.n) : /\ k # j
                              /\ Adjacent(E, k, j)
                              /\ D[c][k] + Weight(E, k, j) = D[c][j]}

RECURSIVE PredMaps(_, _, _, _)
PredMaps(E, D, c, j) ==
    IF j = 0 THEN {<<>>}
    ELSE {Append(s, x) : s \in PredMaps(E, D, c, j - 1), x \in PredChoices(E, D, c, j - 1)}

\* csgraph.dijkstra(E, directed=False, indices=c, return_predecessors=True)[1]
Dijkstra(E, c) ==
    {Array([i \in Nodes(E.n) |-> s[i + 1]]) : s \in PredMaps(E, ShortestPath(E), c, E.n)}

\* ------------------------------------------------------------ homographies
\* _get_match: the record of the pair, under whichever key it is stored.
GetMatch(m, src_idx, dst_idx) ==
    IF <<src_idx, dst_idx>> \in DOMAIN m THEN m[<<src_idx, dst_idx>>]
    ELSE m[<<dst_idx, src_idx>>]

\* _find_homography without the second exchange.
FindHomographyOneSwap(src, dst, rec, swap, inliers) ==
    LET s == IF swap THEN dst ELSE src
        d == IF swap THEN src ELSE dst
        src_data == [img |-> s, side |-> "query"]
        dst_data == [img |-> d, side |-> "train"]
    IN  [err |-> IF inliers = 0 THEN "Estimation" ELSE "",
         src_data |-> src_data, dst_data |-> dst_data,
         H |-> <<[from |-> src_data.img, to |-> dst_data.img]>>]

\* _find_homography: src_data are keypoints of one image picked by the
\* queryIdx of every correspondence, dst_data keypoints of the other picked
\* by trainIdx; with swap the images are exchanged before the points are
\* taken and the two point sets are exchanged after.  H is what
\* cv2.findHomography(src_data, dst_data) estimates: the step from the
\* image of src_data to the image of dst_data.
FindHomography(src, dst, rec, swap, inliers) ==
    LET s == IF swap THEN dst ELSE src
        d == IF swap THEN src ELSE dst
        q == [img |-> s, side |-> "query"]
        t == [img |-> d, side |-> "train"]
        src_data == IF swap THEN t ELSE q
        dst_data == IF swap THEN q ELSE t
    IN  [err |-> IF inliers = 0 THEN "Estimation" ELSE "",
         src_data |-> src_data, dst_data |-> dst_data,
         H |-> <<[from |-> src_data.img, to |-> dst_data.img]>>]

\* np.identity(3)
Identity == <<>>

\* A.dot(B)
Dot(A, B) == A \o B

NoEstimate == [err |-> "", src_data |-> [img |-> None, side |-> ""],
               dst_data |-> [img |-> None, side |-> ""], H |-> Identity]

Unset == [set |-> FALSE, H |-> Identity]

\* The first loop of _calculate_total_homographies: the step of every node
\* to its parent.
NextH(parents, c, m, n, inliers) ==
    Array([src_idx \in Nodes(n) |->
        IF parents[src_idx] < 0 \/ src_idx = c THEN NoEstimate
        ELSE FindHomography(src_idx, parents[src_idx],
                 GetMatch(m, src_idx, parents[src_idx]),
                 <<src_idx, parents[src_idx]>> \notin DOMAIN m, inliers)])

FirstUnset(total, n) == CHOOSE i \in Nodes(n) : ~total[i].set /\ \A j \in Nodes(i) : total[j].set

\* The steps the walk below may take before it is given up as not
\* terminating: every node is popped at most once per deferral of a
\* descendant and once per outer round.
WalkFuel(n) == (n + 2) * (n + 2)

RECURSIVE WalkRight(_, _, _, _, _, _)
\* The walk, multiplying the step on the right of the parent's transform.
WalkRight(parents, c, next_H, n, st, fuel) ==
    IF fuel = 0 THEN st
    ELSE IF st.path = <<>>
    THEN IF \A i \in Nodes(n) : st.total[i].set
         THEN [st EXCEPT !.terminated = TRUE]
         ELSE WalkRight(parents, c, next_H, n,
                  [st EXCEPT !.path = <<FirstUnset(st.total, n)>>], fuel - 1)
    ELSE LET src_idx == st.path[Len(st.path)]
             rest == SubSeq(st.path, 1, Len(st.path) - 1)
             dst_idx == parents[src_idx]
         IN  IF c = src_idx
             THEN WalkRight(parents, c, next_H, n, [st EXCEPT !.path = rest], fuel - 1)
             ELSE IF dst_idx < 0
             THEN [st EXCEPT !.err = "Index"]
             ELSE IF ~st.total[dst_idx].set
             THEN WalkRight(parents, c, next_H, n,
                      [st EXCEPT !.path = rest \o <<src_idx, dst_idx>>], fuel - 1)
             ELSE WalkRight(parents, c, next_H, n,
                      [st EXCEPT !.path = rest,
                                 !.total[src_idx] =
                                     [set |-> TRUE, H |-> Dot(st.total[dst_idx].H, next_H[src_idx].H)],
                                 !.assigned[src_idx] = @ + 1], fuel - 1)

RECURSIVE Walk(_, _, _, _, _, _)
\* The second loop of _calculate_total_homographies, one step of the inner
\* or of the outer while per call: st holds total_H, path and, for every
\* node, how many times its total_H was assigned.
Walk(parents, c, next_H, n, st, fuel) ==
    IF fuel = 0 THEN st
    ELSE IF st.path = <<>>
    THEN IF \A i \in Nodes(n) : st.total[i].set
         THEN [st EXCEPT !.terminated = TRUE]
         ELSE Walk(parents, c, next_H, n,
                  [st EXCEPT !.path = <<FirstUnset(st.total, n)>>], fuel - 1)
    ELSE LET src_idx == st.path[Len(st.path)]
             rest == SubSeq(st.path, 1, Len(st.path) - 1)
             dst_idx == parents[src_idx]
         IN  IF c = src_idx
             THEN Walk(parents, c, next_H, n, [st EXCEPT !.path = rest], fuel - 1)
             ELSE IF dst_idx < 0
             THEN [st EXCEPT !.err = "Index"]
             ELSE IF ~st.total[dst_idx].set
             THEN Walk(parents, c, next_H, n,
                      [st EXCEPT !.path = rest \o <<src_idx, dst_idx>>], fuel - 1)
             ELSE Walk(parents, c, next_H, n,
                      [st EXCEPT !.path = rest,
                                 !.total[src_idx] =
                                     [set |-> TRUE, H |-> Dot(next_H[src_idx].H, st.total[dst_idx].H)],
                                 !.assigned[src_idx] = @ + 1], fuel - 1)

\* _calculate_total_homographies: the estimates, then the walk started with
\* total_H[c] = next_H[c].
TotalHomographies(parents, c, m, n, inliers) ==
    LET next_H == NextH(parents, c, m, n, inliers)
        failed == \E i \in Nodes(n) : next_H[i].err # ""
        start == [total |-> Array([i \in Nodes(n) |->
                                IF i = c THEN [set |-> TRUE, H |-> next_H[c].H] ELSE Unset]),
                  path |-> <<>>,
                  assigned |-> Array([i \in Nodes(n) |-> IF i = c THEN 1 ELSE 0]),
                  terminated |-> FALSE,
                  err |-> ""]
    IN  IF failed
        THEN [err |-> "Estimation", next_H |-> next_H, walk |-> start]
        ELSE LET w == Walk(parents, c, next_H, n, start, WalkFuel(n))
             IN  [err |-> w.err, next_H |-> next_H, walk |-> w]

\* ------------------------------------------------------------ draw order
RECURSIVE Preorder(_, _, _)
RECURSIVE PreorderEach(_, _, _)
\* csgraph.depth_first_order on the tree of reconstruct_path: a node, then
\* the subtree of each of its children, the children in index order.
Preorder(parents, n, node) ==
    <<node>> \o PreorderEach(parents, n, Ascending({j \in Nodes(n) : parents[j] = node}, 0, n))

PreorderEach(parents, n, children) ==
    IF children = <<>> THEN <<>>
    ELSE Preorder(parents, n, Head(children)) \o PreorderEach(parents, n, Tail(children))

Reverse(s) == Array([i \in 1 .. Len(s) |-> s[Len(s) + 1 - i]])

\* _calculate_draw_order without the [::-1].
DrawOrderForward(parents, c, n) == Preorder(parents, n, c)

\* _calculate_draw_order
DrawOrder(parents, c, n) == Reverse(Preorder(parents, n, c))

\* ------------------------------------------------------------ geometry
\* image_corners(arr), for an image of shape (ImgH, ImgW), in pixels.
ImageCorners == << <<0, 0>>, <<0, ImgW>>, <<ImgH, ImgW>>, <<ImgH, 0>> >>

\* The map the identity matrix denotes; the entries of a map are in units
\* of 1/Den.
IdentityMap == [a |-> Den, b |-> 0, c |-> 0, d |-> Den, tx |-> 0, ty |-> 0]

\* cv2.perspectiveTransform of pixel corners: the points, in units of 1/Den.
PerspectiveTransform(corners, A) ==
    Array([i \in DOMAIN corners |->
        <<A.a * corners[i][1] + A.b * corners[i][2] + A.tx,
          A.c * corners[i][1] + A.d * corners[i][2] + A.ty>>])

\* math.floor and math.ceil of v/Den.
Floor(v) == v \div Den

Ceil(v) == -((-v) \div Den)

SetMin(S) == CHOOSE x \in S : \A y \in S : x <= y

SetMax(S) == CHOOSE x \in S : \A y \in S : x >= y

\* fitting_rectangle with the width and height taken from the unrounded
\* left and top.
FittingRectangleUnrounded(points) ==
    LET xs == {points[i][1] : i \in DOMAIN points}
        ys == {points[i][2] : i \in DOMAIN points}
    IN  [shift |-> <<Floor(SetMin(xs)), Floor(SetMin(ys))>>,
         size |-> <<Ceil(SetMax(xs) - SetMin(xs)), Ceil(SetMax(ys) - SetMin(ys))>>]

\* fitting_rectangle(*points): (left, top), (width, height) in pixels, the
\* width and height measured from the floored left and top.
FittingRectangle(points) ==
    LET xs == {points[i][1] : i \in DOMAIN points}
        ys == {points[i][2] : i \in DOMAIN points}
        left == Floor(SetMin(xs))
        top == Floor(SetMin(ys))
        width == Ceil(SetMax(xs) - left * Den)
        height == Ceil(SetMax(ys) - top * Den)
    IN  [shift |-> <<left, top>>, size |-> <<width, height>>]

\* _calculate_new_corners: the corners of image i under its transform.  The
\* matrix a word denotes is the environment's, the empty word denotes the
\* identity.
NewCorners(Hs, maps, i) ==
    PerspectiveTransform(ImageCorners, IF Hs[i] = Identity THEN IdentityMap ELSE maps[i])

RECURSIVE Flatten(_)
Flatten(ss) == IF ss = <<>> THEN <<>> ELSE Head(ss) \o Flatten(Tail(ss))

\* _calculate_bounds
CalculateBounds(new_corners, n) ==
    FittingRectangle(Flatten(Array([i \in 1 .. n |-> new_corners[i - 1]])))

\* A Python slice bound on an axis of the given length.
SliceBound(i, length) ==
    IF i < 0 THEN (IF i + length < 0 THEN 0 ELSE i + length)
    ELSE IF i > length THEN length ELSE i

SliceLen(lo, hi, length) ==
    IF SliceBound(hi, length) > SliceBound(lo, length)
    THEN SliceBound(hi, length) - SliceBound(lo, length) ELSE 0

\* paste_image(base, img, shift): the rows and columns of base it writes,
\* or the assertion on the shape of the destination failing.
PasteImage(canvas, size, shift) ==
    LET w == size[1]
        h == size[2]
        x == shift[1]
        y == shift[2]
    IN  [err |-> IF /\ SliceLen(x, x + w, canvas[1]) = w
                    /\ SliceLen(y, y + h, canvas[2]) = h
                 THEN "" ELSE "Assertion",
         x |-> SliceBound(x, canvas[1]), y |-> SliceBound(y, canvas[2]),
         w |-> w, h |-> h]

\* ------------------------------------------------------------ results
\* What the last operation returned or raised, and what it computed on the
\* way: the observations the properties below are stated on.
NoRect == [shift |-> <<0, 0>>, size |-> <<0, 0>>]

Returned(op) ==
    [op |-> op, status |-> "ok", names |-> <<>>, center |-> None,
     computed |-> FALSE, mat |-> NoMatrix, replaced |-> FALSE, parents |-> <<>>, est |-> <<>>,
     Hs |-> <<>>, assigned |-> <<>>, terminated |-> FALSE, order |-> <<>>,
     base |-> NoRect, rects |-> <<>>, canvas |-> <<0, 0>>, pastes |-> <<>>]

\* ------------------------------------------------------------ stitch
\* The loop of stitch over the draw order: every image's fitting rectangle
\* and the paste of a buffer of that size at shift - base_shift.
Composite(order, new_corners, base) ==
    Array([k \in DOMAIN order |->
        LET r == FittingRectangle(new_corners[order[k]])
        IN  PasteImage(base.size, r.size,
                <<r.shift[1] - base.shift[1], r.shift[2] - base.shift[2]>>)])

\* stitch() from the spanning tree on: what it returns or raises.  n is
\* len(parents), the number of nodes of the edge matrix.
Finish(r, c, parents, m, n, e) ==
    LET th == TotalHomographies(parents, c, m, n, e.inliers)
        r1 == [r EXCEPT !.parents = parents,
                        !.est = th.next_H,
                        !.Hs = Array([i \in Nodes(n) |-> th.walk.total[i].H]),
                        !.assigned = th.walk.assigned,
                        !.terminated = th.walk.terminated]
        new_corners == Array([i \in Nodes(n) |-> NewCorners(r1.Hs, e.maps, i)])
        base == CalculateBounds(new_corners, n)
        order == DrawOrder(parents, c, n)
        pastes == Composite(order, new_corners, base)
    IN  IF th.err # "" THEN [r1 EXCEPT !.status = th.err]
        ELSE IF ~th.walk.terminated THEN [r1 EXCEPT !.status = "Diverges"]
        ELSE IF e.quads # 1 THEN [r1 EXCEPT !.status = "Geometry"]
        ELSE [r1 EXCEPT !.order = order,
                        !.base = base,
                        !.rects = Array([i \in Nodes(n) |-> FittingRectangle(new_corners[i])]),
                        !.canvas = base.size,
                        !.pastes = pastes,
                        !.status = IF \E k \in DOMAIN pastes : pastes[k].err # ""
                                   THEN "Assertion" ELSE "ok"]

\* stitch(): every outcome, with the center and the edge-matrix cache it
\* leaves.  validate() reads _edge_matrix, then the center is read.
StitchOutcomes(imgs, m, cen, cur, e) ==
    LET em == EdgeMatrix(imgs, m, cur)
        r0 == [Returned("stitch") EXCEPT !.mat = em.mat,
                                         !.replaced = (cur.set /\ em.cache # cur)]
        v == Validate(em.mat)
        c == IF cen = None THEN FindCenter(em.mat) ELSE cen
        r == [r0 EXCEPT !.center = c, !.computed = (cen = None)]
    IN  IF em.err # ""
        THEN {[ret |-> [r0 EXCEPT !.status = em.err], center |-> cen, cache |-> em.cache]}
        ELSE IF v.err # ""
        THEN {[ret |-> [r0 EXCEPT !.status = v.err, !.names = v.names],
               center |-> cen, cache |-> em.cache]}
        ELSE {[ret |-> Finish(r, c, parents, m, em.mat.n, e),
               center |-> c, cache |-> em.cache] : parents \in Dijkstra(em.mat, c)}

\* ------------------------------------------------------------ environment
\* Numbers of good correspondences _match_features may find for a pair.
GoodCounts == {MatchesThreshold - 5, MatchesThreshold + 5, MatchesThreshold + 10}

\* The matrix the estimator returns for image i: a translation.
Translations == [i \in Nodes(MaxImages + MaxNodes + BoundsImages) |->
                    [IdentityMap EXCEPT !.tx = 3 * i, !.ty = -i]]

\* The estimator finds inliers and the corner transform yields one
\* quadrilateral; or one of them does not.
Working == [inliers |-> MatchesThreshold, quads |-> 1, maps |-> Translations]

Envs == {Working, [Working EXCEPT !.inliers = 0], [Working EXCEPT !.quads = 0]}

\* ------------------------------------------------------------ operations
\* add_image(image): `good` gives, for every earlier image, the number of
\* good correspondences found with the new one.
AddImage(good) ==
    /\ N < MaxImages
    /\ images' = Append(images, N)
    /\ matches' = NewMatches(matches, N, good)
    /\ ret' = Returned("add")
    /\ UNCHANGED <<center, cache, manual, env>>

\* x = stitcher.center
ReadCenter ==
    /\ IF center # None
       THEN /\ ret' = [Returned("read") EXCEPT !.center = center]
            /\ UNCHANGED <<center, cache>>
       ELSE LET em == EdgeMatrix(images, matches, cache)
            IN  IF em.err # ""
                THEN /\ ret' = [Returned("read") EXCEPT !.status = em.err]
                     /\ cache' = em.cache
                     /\ UNCHANGED center
                ELSE /\ center' = FindCenter(em.mat)
                     /\ cache' = em.cache
                     /\ ret' = [Returned("read") EXCEPT !.center = center',
                                                        !.computed = TRUE,
                                                        !.mat = em.mat,
                                                        !.replaced =
                                                            (cache.set /\ em.cache # cache)]
    /\ UNCHANGED <<images, matches, manual, env>>

\* stitcher.center = val, for the index of an image of the session
WriteCenter(val) ==
    /\ center' = val
    /\ manual' = val
    /\ ret' = Returned("write")
    /\ UNCHANGED <<images, matches, cache, env>>

\* stitch() that drops the match records when it fails.
StitchDropping ==
    \E out \in StitchOutcomes(images, matches, center, cache, env) :
        /\ ret' = out.ret
        /\ center' = out.center
        /\ cache' = out.cache
        /\ matches' = IF out.ret.status = "ok" THEN matches ELSE EmptyFn
        /\ UNCHANGED <<images, manual, env>>

\* stitch()
Stitch ==
    \E out \in StitchOutcomes(images, matches, center, cache, env) :
        /\ ret' = out.ret
        /\ center' = out.center
        /\ cache' = out.cache
        /\ UNCHANGED <<images, matches, manual, env>>

\* ------------------------------------------------------------ sessions
\* ImageStitcher(), in an environment that stays as it is
Init ==
    /\ images = <<>>
    /\ matches = EmptyFn
    /\ center = None
    /\ cache = NoMatrix
    /\ manual = None
    /\ env \in Envs
    /\ ret = Returned("init")

Next ==
    \/ \E good \in [Nodes(N) -> GoodCounts] : AddImage(good)
    \/ ReadCenter
    \/ \E val \in Nodes(N) : WriteCenter(val)
    \/ Stitch

Spec == Init /\ [][Next]_vars

\* ------------------------------------------------------------ drawn sessions
\* The keys add_image stores records under: the later image first.
Pairs(n) == {k \in Nodes(n) \X Nodes(n) : k[1] > k[2]}

\* The match records of a session of n images with at most MaxEdges
\* matched pairs.
DrawnMatches(n) ==
    UNION {{Array([k \in K |-> MatchFeatures(k[1], k[2], good[k])]) :
               good \in [K -> {g \in GoodCounts : g >= MatchesThreshold}]} :
           K \in {K \in SUBSET Pairs(n) : Cardinality(K) <= MaxEdges}}

\* A session after n add_image calls and, with center # None, a write of
\* center.
PipelineInit ==
    \E n \in 1 .. MaxNodes :
        /\ images = Array([i \in 1 .. n |-> i - 1])
        /\ matches \in DrawnMatches(n)
        /\ center \in {None, 0}
        /\ manual = center
        /\ cache = NoMatrix
        /\ env = Working
        /\ ret = Returned("init")

PipelineNext == Stitch

PipelineSpec == PipelineInit /\ [][PipelineNext]_vars

\* Entries of the matrices the estimator may return, in units of 1/Den:
\* a scaling by 1, a quarter turn, a shrinking and a shear, each followed
\* by a shift that may be negative or fractional.
Linear == {<<Den, 0, 0, Den>>, <<0, -Den, Den, 0>>, <<1, 0, 0, 3>>, <<Den, 1, -1, Den>>}

Shifts == {-3, 0, 1}

Family == {[a |-> L[1], b |-> L[2], c |-> L[3], d |-> L[4], tx |-> sx, ty |-> sy] :
              L \in Linear, sx \in Shifts, sy \in Shifts}

BoundsEnvs(n) ==
    {[Working EXCEPT !.maps = Array([i \in Nodes(n) |-> IF i = 0 THEN IdentityMap ELSE g[i]])] :
        g \in [1 .. (n - 1) -> Family]}

\* A session of BoundsImages images, each matched with the one before it,
\* after center = 0.
BoundsInit ==
    /\ images = Array([i \in 1 .. BoundsImages |-> i - 1])
    /\ matches = Array([k \in {<<i, i - 1>> : i \in 1 .. (BoundsImages - 1)} |->
                           MatchFeatures(k[1], k[2], MatchesThreshold)])
    /\ center = 0
    /\ manual = 0
    /\ cache = NoMatrix
    /\ env \in BoundsEnvs(BoundsImages)
    /\ ret = Returned("init")

BoundsNext == Stitch

BoundsSpec == BoundsInit /\ [][BoundsNext]_vars

\* ------------------------------------------------------------ properties
\* The notions the properties are stated in, defined on the session itself
\* (the images and the stored records), not on what an operation computed.

Matched(i, j) == <<i, j>> \in DOMAIN matches \/ <<j, i>> \in DOMAIN matches

RECURSIVE Linked(_)
\* The images joined to an image of S by a chain of stored records.
Linked(S) ==
    LET more == S \cup {j \in Nodes(N) : \E i \in S : Matched(i, j)}
    IN  IF more = S THEN S ELSE Linked(more)

Components == {Linked({i}) : i \in Nodes(N)}

\* The largest component, the one with the lowest image among the largest.
Majority ==
    CHOOSE C \in Components :
        \A C2 \in Components :
            \/ Cardinality(C) > Cardinality(C2)
            \/ Cardinality(C) = Cardinality(C2) /\ SetMin(C) <= SetMin(C2)

Range(s) == {s[i] : i \in DOMAIN s}

\* The largest correspondence count over all pairs.
LargestCount ==
    CHOOSE l \in {matches[k].len : k \in DOMAIN matches} :
        \A k \in DOMAIN matches : matches[k].len <= l

\* The weight of the edge of a stored record.
EdgeWeight(i, j) ==
    LargestCount + 1 - (IF <<i, j>> \in DOMAIN matches THEN matches[<<i, j>>].len
                        ELSE matches[<<j, i>>].len)

\* D holds the shortest-path distances of the match graph: no edge shortens
\* an entry, and every entry is reached over an edge from a nearer node.
IsShortestPaths(D) ==
    \A i \in Nodes(N) :
        /\ D[i][i] = 0
        /\ \A j \in Nodes(N) \ {i} :
            /\ \A k \in Nodes(N) : Matched(k, j) => D[i][j] <= D[i][k] + EdgeWeight(k, j)
            /\ \E k \in Nodes(N) : Matched(k, j) /\ D[i][j] = D[i][k] + EdgeWeight(k, j)

Eccentricity(D, i) == SetMax({D[i][j] : j \in Nodes(N)})

RECURSIVE Depth(_, _)
\* The number of tree edges between a node and the root.
Depth(parents, i) == IF parents[i] < 0 THEN 0 ELSE 1 + Depth(parents, parents[i])

RECURSIVE PathProduct(_, _, _)
\* The product of the pairwise steps from a node to the root, in order.
PathProduct(parents, est, i) ==
    IF parents[i] < 0 THEN Identity
    ELSE est[i].H \o PathProduct(parents, est, parents[i])

Position(order, i) == CHOOSE k \in DOMAIN order : order[k] = i

\* stitch() got as far as the spanning tree.
Spanned == ret.op = "stitch" /\ ret.parents # <<>>

\* stitch() got as far as compositing.
Composited == ret.op = "stitch" /\ ret.order # <<>>

\* C1: when the match graph has more than one component (a session of two
\* or more images without any record included), stitch() returns no canvas
\* and raises the connectivity error naming exactly the images outside the
\* majority component.
C1_DisconnectedNamesUnstitchable ==
    (ret.op = "stitch" /\ Cardinality(Components) > 1) =>
        /\ ret.status = "Connectivity"
        /\ ret.canvas = <<0, 0>>
        /\ Range(ret.names) = Nodes(N) \ Majority

\* C1, for the sessions that hold at least one record: the same statement.
C1_WithSomeRecord ==
    (DOMAIN matches # {}) => C1_DisconnectedNamesUnstitchable

\* C2: a session of exactly one image stitches: no error, that image the
\* center with the identity transform, and a canvas.
C2_SingleImageStitches ==
    (ret.op = "stitch" /\ N = 1) =>
        /\ ret.status = "ok"
        /\ ret.center = 0
        /\ ret.Hs = Array([i \in {0} |-> Identity])
        /\ ret.canvas # <<0, 0>>

\* C3: a stitch() that fails leaves the list of images and the stored match
\* records as they were.
C3_FailedStitchKeepsSession ==
    [][(ret'.op = "stitch" /\ ret'.status # "ok") =>
           (images' = images /\ matches' = matches)]_vars

C3_Witness ==
    /\ ret.op = "stitch"
    /\ ret.status \in {"Connectivity", "Estimation", "Geometry"}
    /\ N >= 2
    /\ DOMAIN matches # {}

\* C4: a read of center, and a stitch, uses the value last written by the
\* caller if there is one, and otherwise the graph center of the match graph
\* over the images the session holds now.
C4_CenterManualOrCurrent ==
    (ret.op \in {"read", "stitch"} /\ ret.center # None) =>
        IF manual # None THEN ret.center = manual
        ELSE ret.center = FindCenter(BuildMatrix(N, matches))

\* C4, the half on a written center alone.
C4_ManualKept ==
    (ret.op \in {"read", "stitch"} /\ ret.center # None /\ manual # None) =>
        ret.center = manual

\* C5: every image's paste rectangle lies inside the canvas, whose size is
\* that of the fitting rectangle of all corners, so the canvas is never
\* smaller than an image's fitting rectangle and no paste leaves it.
C5_PastesInsideCanvas ==
    Composited =>
        /\ ret.status = "ok"
        /\ ret.canvas = ret.base.size
        /\ \A i \in Nodes(N) :
            LET r == ret.rects[i]
                x == r.shift[1] - ret.base.shift[1]
                y == r.shift[2] - ret.base.shift[2]
            IN  /\ 0 <= x
                /\ 0 <= y
                /\ x + r.size[1] <= ret.base.size[1]
                /\ y + r.size[2] <= ret.base.size[2]
                /\ r.size[1] <= ret.canvas[1]
                /\ r.size[2] <= ret.canvas[2]
        /\ \A k \in DOMAIN ret.pastes :
            LET p == ret.pastes[k]
            IN  /\ 0 <= p.x /\ p.x + p.w <= ret.canvas[1]
                /\ 0 <= p.y /\ p.y + p.h <= ret.canvas[2]

\* An image with corners left of and above the center's and at fractional
\* coordinates is pasted, and another one away from the canvas origin.
C5_Witness ==
    /\ Composited
    /\ \E i \in Nodes(N) : ret.rects[i].shift[1] < 0 /\ ret.rects[i].shift[2] < 0
    /\ \E k \in DOMAIN ret.pastes : ret.pastes[k].x > 0 /\ ret.pastes[k].y > 0
    /\ \E i \in Nodes(N) \ {0} : \E q \in DOMAIN ImageCorners :
           PerspectiveTransform(ImageCorners, env.maps[i])[q][1] % Den # 0

\* C6, as claimed: the draw order lists every image once, the center last,
\* and no image before one that is strictly deeper in the tree.
C6_DeeperPaintedFirst ==
    Composited =>
        /\ Len(ret.order) = N
        /\ Range(ret.order) = Nodes(N)
        /\ ret.order[N] = ret.center
        /\ \A a \in DOMAIN ret.order : \A b \in DOMAIN ret.order :
               a < b => Depth(ret.parents, ret.order[a]) >= Depth(ret.parents, ret.order[b])

\* C6, amended: the draw order lists every image once, the center last, and
\* every image before its parent in the tree.
C6_ChildrenPaintedFirst ==
    Composited =>
        /\ Len(ret.order) = N
        /\ Range(ret.order) = Nodes(N)
        /\ ret.order[N] = ret.center
        /\ \A i \in Nodes(N) :
               ret.parents[i] >= 0 =>
                   Position(ret.order, i) < Position(ret.order, ret.parents[i])

\* A tree in which an image is painted before a deeper one.
C6_Witness ==
    /\ Composited
    /\ \E a \in DOMAIN ret.order : \E b \in DOMAIN ret.order :
           a < b /\ Depth(ret.parents, ret.order[a]) < Depth(ret.parents, ret.order[b])

\* C7: on a connected match graph with the weights largest count + 1 - count,
\* the center _find_center computes is the node of least eccentricity, the
\* lowest index among those of least eccentricity.
C7_CenterIsMinimax ==
    (ret.op = "stitch" /\ ret.computed) =>
        LET D == ShortestPath(ret.mat)
        IN  /\ Cardinality(Components) = 1
            /\ IsShortestPaths(D)
            /\ \A j \in Nodes(N) : Eccentricity(D, ret.center) <= Eccentricity(D, j)
            /\ \A j \in Nodes(ret.center) : Eccentricity(D, ret.center) < Eccentricity(D, j)

\* A-B with 20 correspondences, B-C with 15, no A-C record: the center is B.
C7_Witness ==
    /\ ret.op = "stitch" /\ ret.computed
    /\ N = 3
    /\ DOMAIN matches = {<<1, 0>>, <<2, 1>>}
    /\ matches[<<1, 0>>].len = 20
    /\ matches[<<2, 1>>].len = 15
    /\ ret.center = 1

\* C8: on a tree rooted at the center the walk terminates with every image's
\* transform assigned exactly once, the center's the identity and every
\* other one the node's step times its parent's transform: the product of
\* the steps along the path to the center.
C8_WalkComposesAlongTree ==
    Spanned =>
        /\ ret.terminated
        /\ \A i \in Nodes(N) : ret.assigned[i] = 1
        /\ ret.Hs[ret.center] = Identity
        /\ \A i \in Nodes(N) \ {ret.center} :
            /\ ret.Hs[i] = Dot(ret.est[i].H, ret.Hs[ret.parents[i]])
            /\ ret.Hs[i] = PathProduct(ret.parents, ret.est, i)

\* A node two steps from the center whose parent comes later in the list,
\* so that it was deferred.
C8_Witness ==
    /\ Spanned
    /\ ret.status = "ok"
    /\ \E i \in Nodes(N) : Len(ret.Hs[i]) >= 2 /\ ret.parents[i] > i

\* C9: for every tree edge (node, parent) the estimator is handed the node's
\* keypoints as source and the parent's as destination, each picked by the
\* side of the correspondences that is that image's in the stored record.
C9_NodeToParent ==
    Spanned =>
        \A i \in Nodes(N) \ {ret.center} :
            LET p == ret.parents[i]
                rec == IF <<i, p>> \in DOMAIN matches THEN matches[<<i, p>>]
                       ELSE matches[<<p, i>>]
                e == ret.est[i]
            IN  /\ e.src_data.img = i
                /\ e.dst_data.img = p
                /\ rec[e.src_data.side] = i
                /\ rec[e.dst_data.side] = p

\* A tree with an edge stored as (node, parent) and one stored as
\* (parent, node).
C9_Witness ==
    /\ Spanned
    /\ \E i \in Nodes(N) : ret.parents[i] >= 0 /\ <<i, ret.parents[i]>> \in DOMAIN matches
    /\ \E i \in Nodes(N) : ret.parents[i] >= 0 /\ <<ret.parents[i], i>> \in DOMAIN matches

\* C10: the matrix a read of _edge_matrix returns, and the cached one while
\* it has one node per image, has one node per image and one edge per stored
\* record, weighted from the records stored now.
C10_EdgeMatrixCurrent ==
    \A E \in {ret.mat} \cup {M \in {cache} : M.n = N} :
        E.set =>
            /\ E.n = N
            /\ DOMAIN E.w = DOMAIN matches
            /\ \A k \in DOMAIN matches : E.w[k] = EdgeWeight(k[1], k[2])

\* A read that found a matrix cached for fewer images and rebuilt it.
C10_Witness ==
    /\ ret.op \in {"read", "stitch"}
    /\ ret.replaced
    /\ ret.mat.set
    /\ ret.mat.n = N

====
